---- MODULE Spec2Model ----
(***************************************************************************)
(* Model of examples/mnist/train.py: the training loop of the MNIST        *)
(* example (train, train_epoch, train_step, eval_model) and its helpers    *)
(* (shard, device_get_first, pmean, create_optimizer).                     *)
(*                                                                         *)
(* The numerical framework is opaque to the script.  It is modelled over   *)
(* the integers: a model is one integer parameter, an example is its label *)
(* (an integer), the gradient of a shard is the sum of the per-example     *)
(* residuals, and the momentum optimizer keeps (target, momentum, step).   *)
(* What matters to the script is kept: which examples reach which device,  *)
(* which value of the optimizer each step reads and writes, and what is    *)
(* reduced across devices (the metrics) and what is not.                   *)
(***************************************************************************)
EXTENDS Integers, Sequences, FiniteSets, TLC

\* ---- bounds of the model -------------------------------------------------
MaxN == 3            \* training sets of 0..MaxN examples
MaxBatch == 3        \* --batch_size ranges over -1..MaxBatch
MaxEpochs == 2       \* --num_epochs ranges over -1..MaxEpochs
MaxDevices == 2      \* jax.device_count() ranges over 1..MaxDevices
MaxLabel == 1        \* an example is a label in 0..MaxLabel

VARIABLES
  device_count,   \* jax.device_count()
  batch_size,     \* FLAGS.batch_size
  num_epochs,     \* FLAGS.num_epochs
  train_ds,       \* the training set, a sequence of examples
  pc,             \* position of the script
  err,            \* the exception that ended the run, "" if none
  epoch,          \* loop variable of train
  optimizer,      \* train's variable `optimizer` (one replica per device)
  input_rng,      \* state of input_rng: number of permutations drawn
  log,            \* the logging.info records emitted so far
  ep_optimizer,   \* train_epoch's variable `optimizer`
  perms,          \* train_epoch's `perms` after the reshape: rows not yet used
  batch_metrics,  \* train_epoch's `batch_metrics`
  drawn,          \* history: the permutation drawn in the current epoch
  used,           \* history: the rows given to train_step in the current epoch
  calls,          \* history: (input, output) optimizer of every train_step
  evaluated,      \* history: the model evaluated in each epoch
  returned        \* the value train returned, NoValue before

vars == <<device_count, batch_size, num_epochs, train_ds, pc, err, epoch,
          optimizer, input_rng, log, ep_optimizer, perms, batch_metrics,
          drawn, used, calls, evaluated, returned>>

flags == <<device_count, batch_size, num_epochs, train_ds>>

NoValue == "none"

\* ---- pure helpers --------------------------------------------------------
RECURSIVE SumSeq(_)
SumSeq(s) == IF s = <<>> THEN 0 ELSE Head(s) + SumSeq(Tail(s))

Range(s) == {s[i] : i \in 1..Len(s)}

Devices(dc) == 0..(dc - 1)

\* Python's a // b for b # 0 (floor division, also for a negative divisor).
FloorDiv(a, b) == IF b > 0 THEN a \div b ELSE (0 - a) \div (0 - b)

\* v[perm] for a sequence v and a sequence perm of 0-based indices.
Take(v, perm) == [i \in 1..Len(perm) |-> v[perm[i] + 1]]

\* rng.permutation(n): the permutations of 0..n-1, as sequences.
PermutationWithReplacement(n) == [1..n -> 0..(n - 1)]
Permutation(n) ==
  {p \in [1..n -> 0..(n - 1)] : \A i, j \in 1..n : p[i] = p[j] => i = j}

\* perms[:k]
TruncateKeepLast(p, k) == SubSeq(p, Len(p) - k + 1, Len(p))
Truncate(p, k) == SubSeq(p, 1, k)

\* perms.reshape((rows, cols)) of a sequence of rows * cols elements.
Reshape(p, rows, cols) ==
  [r \in 1..rows |-> SubSeq(p, (r - 1) * cols + 1, r * cols)]

\* shard(xs): reshape((device_count, -1)): device d gets the d-th slice.
shard(xs, dc) ==
  [d \in Devices(dc) |->
     SubSeq(xs, d * (Len(xs) \div dc) + 1, (d + 1) * (Len(xs) \div dc))]

\* device_get_first(xs): the value held by device 0.
device_get_first(xs) == xs[0]

\* pmean(tree): psum over the devices divided by the device count.
pmean(xs, dc) == SumSeq([i \in 1..dc |-> xs[i - 1]]) \div dc

\* cross_entropy_loss(logits, labels), over the integers: the sum of the
\* squared residuals of the examples.
cross_entropy_loss(target, labels) ==
  SumSeq([i \in 1..Len(labels) |-> (target - labels[i]) * (target - labels[i])])

\* jax.value_and_grad(loss_fn): the gradient on one device's examples.
grad_fn(target, labels) ==
  SumSeq([i \in 1..Len(labels) |-> target - labels[i]])

\* optimizer.apply_gradient(grad) of optim.Momentum on one replica.
apply_gradient(opt, grad) ==
  [target   |-> opt.target - (opt.momentum + grad),
   momentum |-> opt.momentum + grad,
   step     |-> opt.step + 1]

\* create_optimizer: optimizer_def.create(model) then replicate().
create_optimizer(dc) ==
  [d \in Devices(dc) |-> [target |-> 0, momentum |-> 0, step |-> 0]]

\* train_step under jax.pmap: every device applies the gradient of its own
\* shard to its own replica; only the metrics are reduced across devices.
train_step_optimizer(opt, batch, dc) ==
  [d \in Devices(dc) |-> apply_gradient(opt[d], grad_fn(opt[d].target, batch[d]))]

train_step_metrics(opt, batch, dc) ==
  pmean([d \in Devices(dc) |-> cross_entropy_loss(opt[d].target, batch[d])], dc)

\* eval_model(model, test_ds) on the test split.
test_ds == <<0, 1>>
eval_model(model) == cross_entropy_loss(model.target, test_ds)

\* the condition of train_epoch's check of the batch size
BatchSizeInvalid(bs, dc) == bs % dc > 0

\* range(1, num_epochs + 1): its first value and its exclusive stop.
range_start == 1
range_stop_short(n) == n
range_stop(n) == n + 1

\* ---- the script ----------------------------------------------------------
Init ==
  /\ device_count \in 1..MaxDevices
  /\ batch_size \in (-1)..MaxBatch
  /\ num_epochs \in (-1)..MaxEpochs
  /\ train_ds \in UNION {[1..n -> 0..MaxLabel] : n \in 0..MaxN}
  /\ pc = "start"
  /\ err = ""
  /\ epoch = 0
  /\ optimizer = NoValue
  /\ input_rng = 0
  /\ log = <<>>
  /\ ep_optimizer = NoValue
  /\ perms = <<>>
  /\ batch_metrics = <<>>
  /\ drawn = <<>>
  /\ used = <<>>
  /\ calls = <<>>
  /\ evaluated = <<>>
  /\ returned = NoValue

\* train, lines 199-207: create the model, the optimizer and input_rng.
TrainStart ==
  /\ pc = "start"
  /\ optimizer' = create_optimizer(device_count)
  /\ input_rng' = 0
  /\ epoch' = range_start
  /\ pc' = "loop"
  /\ UNCHANGED <<flags, err, log, ep_optimizer, perms, batch_metrics, drawn,
                 used, calls, evaluated, returned>>

\* train, line 209-210: the next epoch of range(1, num_epochs + 1) calls
\* train_epoch(optimizer, ...).
TrainCallEpoch ==
  /\ pc = "loop"
  /\ epoch < range_stop(num_epochs)
  /\ ep_optimizer' = optimizer
  /\ perms' = <<>>
  /\ batch_metrics' = <<>>
  /\ drawn' = <<>>
  /\ used' = <<>>
  /\ pc' = "train_epoch"
  /\ UNCHANGED <<flags, err, epoch, optimizer, input_rng, log, calls,
                 evaluated, returned>>

\* train, line 217: the range is exhausted, return optimizer.
TrainReturn ==
  /\ pc = "loop"
  /\ epoch >= range_stop(num_epochs)
  /\ returned' = optimizer
  /\ pc' = "done"
  /\ UNCHANGED <<flags, err, epoch, optimizer, input_rng, log, ep_optimizer,
                 perms, batch_metrics, drawn, used, calls, evaluated>>

\* train_epoch, lines 156-157: the batch size is not divisible.
TrainEpochBadBatchLate ==
  /\ pc = "train_epoch"
  /\ BatchSizeInvalid(batch_size, device_count)
  /\ \E p \in Permutation(Len(train_ds)) : drawn' = p
  /\ input_rng' = input_rng + 1
  /\ err' = "ValueError: Batch size must be divisible by the number of devices"
  /\ pc' = "raised"
  /\ UNCHANGED <<flags, epoch, optimizer, log, ep_optimizer, perms,
                 batch_metrics, used, calls, evaluated, returned>>
TrainEpochBadBatch ==
  /\ pc = "train_epoch"
  /\ BatchSizeInvalid(batch_size, device_count)
  /\ err' = "ValueError: Batch size must be divisible by the number of devices"
  /\ pc' = "raised"
  /\ UNCHANGED <<flags, epoch, optimizer, input_rng, log, ep_optimizer, perms,
                 batch_metrics, drawn, used, calls, evaluated, returned>>

\* train_epoch, line 160: train_ds_size // batch_size with batch_size = 0.
TrainEpochZeroDivision ==
  /\ pc = "train_epoch"
  /\ ~BatchSizeInvalid(batch_size, device_count)
  /\ batch_size = 0
  /\ err' = "ZeroDivisionError"
  /\ pc' = "raised"
  /\ UNCHANGED <<flags, epoch, optimizer, input_rng, log, ep_optimizer, perms,
                 batch_metrics, drawn, used, calls, evaluated, returned>>

\* train_epoch, lines 160-164 with a negative batch size: the permutation is
\* drawn and the reshape to a negative dimension raises.
TrainEpochBadShape ==
  /\ pc = "train_epoch"
  /\ ~BatchSizeInvalid(batch_size, device_count)
  /\ batch_size < 0
  /\ \E p \in Permutation(Len(train_ds)) : drawn' = p
  /\ input_rng' = input_rng + 1
  /\ err' = "ValueError: cannot reshape"
  /\ pc' = "raised"
  /\ UNCHANGED <<flags, epoch, optimizer, log, ep_optimizer, perms,
                 batch_metrics, used, calls, evaluated, returned>>

\* train_epoch, lines 159-165: the rows of the epoch.
steps_per_epoch(n, bs) == FloorDiv(n, bs)

TrainEpochBegin ==
  /\ pc = "train_epoch"
  /\ ~BatchSizeInvalid(batch_size, device_count)
  /\ batch_size > 0
  /\ \E p \in Permutation(Len(train_ds)) :
       /\ drawn' = p
       /\ perms' = Reshape(
            Truncate(p, steps_per_epoch(Len(train_ds), batch_size) * batch_size),
            steps_per_epoch(Len(train_ds), batch_size), batch_size)
  /\ input_rng' = input_rng + 1
  /\ batch_metrics' = <<>>
  /\ pc' = "steps"
  /\ UNCHANGED <<flags, err, epoch, optimizer, log, ep_optimizer, used, calls,
                 evaluated, returned>>

\* train_epoch, lines 166-169: one iteration of `for perm in perms`.
TrainStep ==
  /\ pc = "steps"
  /\ perms # <<>>
  /\ LET perm  == Head(perms)
         batch == shard(Take(train_ds, perm), device_count)
         new   == train_step_optimizer(ep_optimizer, batch, device_count)
     IN /\ ep_optimizer' = new
        /\ batch_metrics' =
             Append(batch_metrics,
                    train_step_metrics(ep_optimizer, batch, device_count))
        /\ used' = Append(used, [perm |-> perm, batch |-> batch])
        /\ calls' = Append(calls, [epoch |-> epoch, in |-> ep_optimizer,
                                   out |-> new])
  /\ perms' = Tail(perms)
  /\ UNCHANGED <<flags, pc, err, epoch, optimizer, input_rng, log, drawn,
                 evaluated, returned>>

\* train_epoch, lines 172-175 with no batch: batch_metrics_np[0] raises.
TrainEpochNoMetrics ==
  /\ pc = "steps"
  /\ perms = <<>>
  /\ batch_metrics = <<>>
  /\ err' = "IndexError"
  /\ pc' = "raised"
  /\ UNCHANGED <<flags, epoch, optimizer, input_rng, log, ep_optimizer, perms,
                 batch_metrics, drawn, used, calls, evaluated, returned>>

\* train_epoch, lines 172-180, and the assignment of its result at line 210.
TrainEpochFinishDropResult ==
  /\ pc = "steps"
  /\ perms = <<>>
  /\ batch_metrics # <<>>
  /\ log' = Append(log, [kind |-> "train", epoch |-> epoch,
                         loss |-> SumSeq(batch_metrics) \div Len(batch_metrics)])
  /\ pc' = "eval"
  /\ UNCHANGED <<flags, err, epoch, optimizer, input_rng, ep_optimizer, perms,
                 batch_metrics, drawn, used, calls, evaluated, returned>>
TrainEpochFinish ==
  /\ pc = "steps"
  /\ perms = <<>>
  /\ batch_metrics # <<>>
  /\ log' = Append(log, [kind |-> "train", epoch |-> epoch,
                         loss |-> SumSeq(batch_metrics) \div Len(batch_metrics)])
  /\ optimizer' = ep_optimizer
  /\ pc' = "eval"
  /\ UNCHANGED <<flags, err, epoch, input_rng, ep_optimizer, perms,
                 batch_metrics, drawn, used, calls, evaluated, returned>>

\* train, lines 213-216: evaluate the first replica and log; next epoch.
TrainEval ==
  /\ pc = "eval"
  /\ LET optimizer_target == device_get_first(optimizer)
     IN /\ evaluated' = Append(evaluated, optimizer_target)
        /\ log' = Append(log, [kind |-> "eval", epoch |-> epoch,
                               loss |-> eval_model(optimizer_target)])
  /\ epoch' = epoch + 1
  /\ pc' = "loop"
  /\ UNCHANGED <<flags, err, optimizer, input_rng, ep_optimizer, perms,
                 batch_metrics, drawn, used, calls, returned>>

Next ==
  \/ TrainStart
  \/ TrainCallEpoch
  \/ TrainReturn
  \/ TrainEpochBadBatch
  \/ TrainEpochZeroDivision
  \/ TrainEpochBadShape
  \/ TrainEpochBegin
  \/ TrainStep
  \/ TrainEpochNoMetrics
  \/ TrainEpochFinish
  \/ TrainEval

Spec == Init /\ [][Next]_vars

\* ---- properties ----------------------------------------------------------
N == Len(train_ds)

DivisibleError ==
  "ValueError: Batch size must be divisible by the number of devices"

\* the `for perm in perms` loop of the current epoch has run to its end
LoopDone ==
  \/ pc = "steps" /\ perms = <<>>
  \/ pc = "eval"
  \/ pc = "raised" /\ err = "IndexError"

\* the (kind, epoch) of the records logged so far
LogKinds == [i \in 1..Len(log) |-> [kind |-> log[i].kind, epoch |-> log[i].epoch]]

\* train 1, eval 1, train 2, eval 2, ..., train n, eval n
ExpectedLog(n) ==
  [i \in 1..(IF n > 0 THEN 2 * n ELSE 0) |->
     [kind |-> IF i % 2 = 1 THEN "train" ELSE "eval", epoch |-> (i + 1) \div 2]]

IsPrefix(s, t) == Len(s) <= Len(t) /\ s = SubSeq(t, 1, Len(s))

\* C1: after every train_step and at the end of every epoch the optimizer
\* replicas of all devices are identical, so that replica 0 is the model of
\* every device.
C1_ReplicasIdentical ==
  /\ \A k \in 1..Len(calls) : \A d \in Devices(device_count) :
       calls[k].out[d] = device_get_first(calls[k].out)
  /\ pc = "eval" =>
       \A d \in Devices(device_count) : optimizer[d] = device_get_first(optimizer)

\* C2 as stated, for a positive batch size no larger than the training set:
\* a run of train with num_epochs = n, once it has ended, has emitted exactly
\* train 1, eval 1, ..., train n, eval n (nothing for n <= 0).
C2_Original ==
  (pc \in {"done", "raised"} /\ batch_size > 0 /\ N >= batch_size) =>
     LogKinds = ExpectedLog(num_epochs)

\* C2 amended: the log is at every moment a prefix of train 1, eval 1, ...,
\* train n, eval n; while epoch e runs the log holds exactly the records of
\* the epochs before e (and e's train record once train_epoch has returned);
\* a run that returns has emitted the whole sequence (nothing for n <= 0);
\* a run ended by an exception of train_epoch ended in epoch 1 with no log.
C2_Theorem ==
  /\ IsPrefix(LogKinds, ExpectedLog(num_epochs))
  /\ pc \in {"train_epoch", "steps"} => Len(log) = 2 * (epoch - 1)
  /\ pc = "eval" => Len(log) = 2 * (epoch - 1) + 1
  /\ pc = "loop" => Len(log) = 2 * (epoch - 1)
  /\ \A k \in 1..Len(calls) : calls[k].epoch \in 1..num_epochs
  /\ \A k \in 1..Len(calls) : Len(log) >= 2 * (calls[k].epoch - 1)
  /\ pc = "done" => LogKinds = ExpectedLog(num_epochs)
  /\ pc = "raised" => log = <<>> /\ epoch = 1

C2_Witness ==
  pc = "done" /\ num_epochs = 2 /\ Len(log) = 4

\* C3: whenever batch_size % device_count > 0, train_epoch raises the
\* ValueError of the divisibility check, before a permutation is drawn and
\* before any train step: optimizer and rng are unchanged, nothing is logged.
C3_Inv ==
  /\ (pc \in {"steps", "eval"} \/ calls # <<>>) => batch_size % device_count = 0
  /\ (pc = "raised" /\ batch_size % device_count > 0) => err = DivisibleError
  /\ err = DivisibleError =>
       /\ batch_size % device_count > 0
       /\ input_rng = 0
       /\ drawn = <<>>
       /\ calls = <<>>
       /\ log = <<>>
       /\ optimizer = create_optimizer(device_count)
       /\ ep_optimizer = optimizer

C3_Step ==
  (pc = "train_epoch" /\ batch_size % device_count > 0) =>
     /\ pc' = "raised"
     /\ err' = DivisibleError
     /\ UNCHANGED <<optimizer, ep_optimizer, input_rng, log, calls, drawn>>

C3_Theorem == []C3_Inv /\ [][C3_Step]_vars

C3_Witness ==
  err = DivisibleError /\ batch_size = 3 /\ device_count = 2 /\ N = 3

\* the optimizer of every step is the result of the step before
Threaded ==
  /\ \A k \in 1..Len(calls) :
       calls[k].in = IF k = 1 THEN create_optimizer(device_count)
                              ELSE calls[k - 1].out
  /\ pc \in {"loop", "eval", "done"} =>
       optimizer = IF calls = <<>> THEN create_optimizer(device_count)
                                   ELSE calls[Len(calls)].out
  /\ pc \in {"train_epoch", "steps"} =>
       ep_optimizer = IF calls = <<>> THEN create_optimizer(device_count)
                                      ELSE calls[Len(calls)].out

\* evaluation and logging leave the optimizer unchanged; it changes only in
\* a train step
OnlyTrainSteps ==
  /\ pc = "eval" => UNCHANGED <<optimizer, ep_optimizer>>
  /\ (pc = "steps" /\ ep_optimizer' # ep_optimizer) => Len(calls') = Len(calls) + 1
  /\ (pc # "start" /\ optimizer' # optimizer) => optimizer' = ep_optimizer

EvaluatedUpdates ==
  \A e \in 1..Len(evaluated) :
    evaluated[e].step = e * steps_per_epoch(N, batch_size)

\* C4 as stated: the returned optimizer has received
\* num_epochs * floor(N / batch_size) updates.
C4_Original ==
  (pc = "done" /\ batch_size > 0) =>
     \A d \in Devices(device_count) :
       returned[d].step = num_epochs * steps_per_epoch(N, batch_size)

\* C4 amended: the optimizer is changed only by train steps and threaded
\* through them in order, across epochs; evaluation and logging leave it
\* unchanged; the model evaluated in epoch e has received e * floor(N /
\* batch_size) updates; train returns the optimizer after num_epochs *
\* floor(N / batch_size) updates when num_epochs >= 1 and the initial
\* optimizer, with no update, when num_epochs <= 0.
C4_Inv ==
  /\ Threaded
  /\ EvaluatedUpdates
  /\ pc = "done" =>
       /\ returned = optimizer
       /\ \A d \in Devices(device_count) :
            returned[d].step =
              IF num_epochs >= 1
                THEN num_epochs * steps_per_epoch(N, batch_size) ELSE 0
       /\ num_epochs <= 0 => returned = create_optimizer(device_count)

C4_Theorem == []C4_Inv /\ [][OnlyTrainSteps]_vars

C4_Witness ==
  /\ pc = "done" /\ num_epochs = 2 /\ Len(calls) = 4
  /\ calls[3].epoch = 2 /\ returned[0].step = 4

\* C5: train_epoch performs exactly floor(N / batch_size) train steps, every
\* step receives exactly batch_size examples, and the last N mod batch_size
\* indices of the permutation are used by no step.
C5_Theorem ==
  /\ pc \in {"steps", "eval"} =>
       /\ Len(used) <= N \div batch_size
       /\ \A k \in 1..Len(used) :
            /\ Len(used[k].perm) = batch_size
            /\ SumSeq([i \in 1..device_count |-> Len(used[k].batch[i - 1])])
                 = batch_size
            /\ \A i \in (N - (N % batch_size) + 1)..N :
                 drawn[i] \notin Range(used[k].perm)
  /\ LoopDone => Len(used) = N \div batch_size

C5_Witness ==
  LoopDone /\ N = 3 /\ batch_size = 2 /\ Len(used) = 1

\* C6: in one epoch the batches are pairwise disjoint sets of indices in
\* 0..N-1, no index occurs twice in a batch, and together they cover exactly
\* floor(N / batch_size) * batch_size distinct examples.
C6_Theorem ==
  /\ \A k \in 1..Len(used) :
       /\ Range(used[k].perm) \subseteq 0..(N - 1)
       /\ \A i, j \in 1..Len(used[k].perm) :
            used[k].perm[i] = used[k].perm[j] => i = j
       /\ \A m \in 1..Len(used) :
            m # k => Range(used[k].perm) \cap Range(used[m].perm) = {}
  /\ LoopDone =>
       Cardinality(UNION {Range(used[k].perm) : k \in 1..Len(used)})
         = (N \div batch_size) * batch_size

C6_Witness ==
  LoopDone /\ N = 3 /\ batch_size = 1 /\ Len(used) = 3
====
